---- MODULE Spec2Model ----
(***************************************************************************)
(* UniSync: one-way synchronisation of a replica directory tree with a     *)
(* source directory tree (src/functions.py, src/unisync.py).               *)
(*                                                                         *)
(* A path is a sequence of components; an absolute path starts with the    *)
(* component "/".  A directory tree is a function from the normalised      *)
(* paths below its root to nodes.  The file-system primitives of os and    *)
(* shutil are modelled by what they do to such a tree, and may also fail   *)
(* for reasons outside the program (permission, I/O), which the actions    *)
(* draw nondeterministically while a fault budget lasts.                   *)
(***************************************************************************)
EXTENDS Integers, Sequences, FiniteSets, TLC

\* ---------------------------------------------------------------- bounds
MaxEntries == 2    \* entries of the two initial trees together
MaxFaults  == 1    \* interferences of the environment in one run
MaxCycles  == 2    \* iterations of the while loop that are explored

\* ------------------------------------------------------------ file system
Names    == {"a", "b"}          \* names of the entries of the initial trees
RootName == "rep"               \* name of the replica root in the working directory
Contents == {<<1>>, <<2>>}      \* file contents, as sequences of chunks

Cwd          == <<"/">>
SourceFolder == <<"/", "src">>
ReplicaFolders == {<<"/", RootName>>, <<RootName>>}   \* absolute, relative

NoEntry     == [kind |-> "none", data |-> <<>>]
DirEntry    == [kind |-> "dir", data |-> <<>>]
FileEntry(d) == [kind |-> "file", data |-> d]
Nodes       == {NoEntry, DirEntry} \cup {FileEntry(d) : d \in Contents}

SrcPaths == {<<x>> : x \in Names} \cup {<<x, y>> : x \in Names, y \in Names}
RepPaths == SrcPaths \cup {<<RootName>>} \cup {<<RootName>> \o p : p \in SrcPaths}

IsPrefix(p, q) == Len(p) <= Len(q) /\ SubSeq(q, 1, Len(p)) = p
Parent(p)      == SubSeq(p, 1, Len(p) - 1)
Range(s)       == {s[i] : i \in 1..Len(s)}

\* kind of the node at relative path p of tree t whose root has kind rootKind
KindAt(t, rootKind, p) ==
    IF p = <<>> THEN rootKind
    ELSE IF p \in DOMAIN t THEN t[p].kind ELSE "none"

Entries(t) == {p \in DOMAIN t : t[p].kind # "none"}

\* every entry has a directory as its parent
WellFormed(t) ==
    \A p \in Entries(t) : Len(p) > 1 => t[Parent(p)].kind = "dir"

\* os.path
isabs(p)   == Len(p) > 0 /\ p[1] = "/"
join(a, b) == IF isabs(b) THEN b ELSE a \o b

RECURSIVE normpath(_)
normpath(p) ==
    IF p = <<>> THEN <<>>
    ELSE IF p[1] = "." THEN normpath(Tail(p))
    ELSE <<p[1]>> \o normpath(Tail(p))

abspath(p) == normpath(IF isabs(p) THEN p ELSE Cwd \o p)

\* the path below root that the path string p designates
Below(root, p) ==
    LET a == abspath(p)
        r == abspath(root)
    IN  SubSeq(a, Len(r) + 1, Len(a))

Min(S) == CHOOSE x \in S : \A y \in S : x <= y

\* --------------------------------------------------------------- exceptions
\* the errors the file-system primitives raise; all are subclasses of OSError
OSErrors == {"FileNotFoundError", "PermissionError", "NotADirectoryError",
             "IsADirectoryError", "FileExistsError", "OSError"}

\* result of a primitive: the exception it raised ("none" when it returned),
\* the tree and the kind of its root afterwards
Result(e, t, r) == [exc |-> e, fs |-> t, root |-> r]

\* the error of resolving the parent of p: the first component that is not a
\* directory decides (ENOTDIR below a file, ENOENT below nothing)
AncestorError(t, rootKind, p) ==
    LET bad == {k \in 0..(Len(p) - 1) : KindAt(t, rootKind, SubSeq(p, 1, k)) # "dir"}
    IN  IF bad = {} THEN "none"
        ELSE IF KindAt(t, rootKind, SubSeq(p, 1, Min(bad))) = "file"
             THEN "NotADirectoryError"
             ELSE "FileNotFoundError"

\* os.remove
os_remove(t, rootKind, p) ==
    Result("none", [t EXCEPT ![p] = NoEntry], rootKind)

\* shutil.rmtree: the directory and everything below it
rmtree(t, rootKind, p) ==
    Result("none", [q \in DOMAIN t |-> IF IsPrefix(p, q) THEN NoEntry ELSE t[q]], rootKind)

\* shutil.copy2 of a file with content data and base name base to p
copy2(t, rootKind, p, data, base) ==
    LET err == AncestorError(t, rootKind, p)
        into == p \o <<base>>
    IN  IF err # "none" THEN Result(err, t, rootKind)
        ELSE IF KindAt(t, rootKind, p) = "dir"
             THEN \* the copy lands inside the directory
                  IF into \notin DOMAIN t THEN Result("none", t, rootKind)
                  ELSE IF t[into].kind = "dir" THEN Result("IsADirectoryError", t, rootKind)
                  ELSE Result("none", [t EXCEPT ![into] = FileEntry(data)], rootKind)
             ELSE Result("none", [t EXCEPT ![p] = FileEntry(data)], rootKind)

\* shutil.copytree of the subtree at sp of src to p: os.makedirs(p), which
\* creates the missing ancestors and refuses an existing p, then every entry
copytree(src, sp, t, rootKind, p) ==
    LET err == AncestorError(t, rootKind, p)
    IN  IF err = "NotADirectoryError" THEN Result(err, t, rootKind)
        ELSE IF KindAt(t, rootKind, p) # "none" THEN Result("FileExistsError", t, rootKind)
        ELSE Result("none",
                    [q \in DOMAIN t |->
                        IF IsPrefix(q, p) THEN DirEntry
                        ELSE IF IsPrefix(p, q)
                             THEN LET s == sp \o SubSeq(q, Len(p) + 1, Len(q))
                                  IN  IF s \in DOMAIN src THEN src[s] ELSE NoEntry
                             ELSE t[q]],
                    "dir")

\* ------------------------------------------------------------ calculate_md5
\* the digest folds the chunks of the file into a running state
RECURSIVE md5_update(_, _)
md5_update(h, chunks) ==
    IF chunks = <<>> THEN h
    ELSE md5_update((h * 31 + chunks[1] + 1) % 251, Tail(chunks))

calculate_md5(data) == md5_update(7, data)

\* ------------------------------------------------------ walk_folder_content
RECURSIVE Flatten(_)
Flatten(ss) == IF ss = <<>> THEN <<>> ELSE ss[1] \o Flatten(Tail(ss))

\* os.walk, top-down: for each directory its files then its directories, in
\* the order the directory lists its names, each joined to the directory's
\* path relative to the root ("." for the root itself); then the directories
RECURSIVE os_walk(_, _, _)
os_walk(t, p, order) ==
    LET relative_dir == IF p = <<>> THEN <<".">> ELSE p
        files == SelectSeq(order, LAMBDA n : KindAt(t, "dir", p \o <<n>>) = "file")
        dirs  == SelectSeq(order, LAMBDA n : KindAt(t, "dir", p \o <<n>>) = "dir")
        items == files \o dirs
    IN  [i \in 1..Len(items) |-> join(relative_dir, <<items[i]>>)]
        \o Flatten([i \in 1..Len(dirs) |-> os_walk(t, p \o <<dirs[i]>>, order)])

\* a root that is not a directory yields nothing (os.walk ignores the error)
walk_folder_content(t, rootKind, order) ==
    IF rootKind = "dir" THEN os_walk(t, <<>>, order) ELSE <<>>

\* ------------------------------------------------------------------- state
VARIABLES
    source,          \* the source tree
    replica,         \* the replica tree
    srcRoot,         \* kind of the source root: "dir", "file" or "none"
    repRoot,         \* kind of the replica root
    replica_folder,  \* the replica root as given on the command line
    sync_interval,   \* <<>> for None, <<n>> for an interval of n seconds
    pc,              \* position of sync_folders
    cycle,           \* iterations of the while loop begun
    sleeps,          \* calls of time.sleep that returned
    source_items,    \* the local lists of the running phase
    replica_items,
    idx,             \* position of the running for loop
    log,             \* messages given to logging.info
    calls,           \* history: the delete_item and copy_item calls made
    faults,          \* failures injected so far
    replica0         \* history: the replica tree when the cycle began

vars == <<source, replica, srcRoot, repRoot, replica_folder, sync_interval,
          pc, cycle, sleeps, source_items, replica_items, idx, log,
          calls, faults, replica0>>

None == <<>>
Intervals == {None, <<-1>>, <<0>>, <<1>>}
\* the order in which a directory lists its names; the walks put a directory
\* before what it holds whatever the order of the names
Listing == <<"a", "b", RootName>>

SmallTrees == {t \in [SrcPaths -> Nodes] :
                 WellFormed(t) /\ Cardinality(Entries(t)) <= MaxEntries}
EmptyTree(S) == [p \in S |-> NoEntry]
AsReplica(t) == [p \in RepPaths |-> IF p \in DOMAIN t THEN t[p] ELSE NoEntry]

Init ==
    /\ srcRoot \in {"dir", "file", "none"}
    /\ repRoot \in {"dir", "file", "none"}
    /\ source \in IF srcRoot = "dir" THEN SmallTrees ELSE {EmptyTree(SrcPaths)}
    /\ replica \in IF repRoot = "dir" THEN {AsReplica(t) : t \in SmallTrees}
                                       ELSE {EmptyTree(RepPaths)}
    /\ Cardinality(Entries(source)) + Cardinality(Entries(replica)) <= MaxEntries
    /\ replica_folder \in ReplicaFolders
    /\ sync_interval \in Intervals
    /\ pc = "validate"
    /\ cycle = 0
    /\ sleeps = 0
    /\ source_items = <<>>
    /\ replica_items = <<>>
    /\ idx = 1
    /\ log = <<>>
    /\ calls = <<>>
    /\ faults = 0
    /\ replica0 = replica

\* ------------------------------------------------------------ sync_folders
\* mutant: the copy phase is called before the delete phase
PhaseOrder_swapped == <<"copy", "delete">>

\* the two phases of an iteration of the while loop, in the order of the code
PhaseOrder == <<"delete", "copy">>

\* mutant: the loop goes round without the break of line 252
AfterPhase_nobreak(ph) ==
    IF ph = PhaseOrder[1] THEN PhaseOrder[2] \o "_walk"
    ELSE IF sync_interval # None THEN "sleep" ELSE PhaseOrder[1] \o "_walk"

\* mutant: line 249 tests the truth of sync_interval, and 0 is false
AfterPhase_truthy(ph) ==
    IF ph = PhaseOrder[1] THEN PhaseOrder[2] \o "_walk"
    ELSE IF sync_interval # None /\ sync_interval[1] # 0 THEN "sleep" ELSE "done"

\* where control goes when phase ph has returned: the other phase, or the test
\* of sync_interval that ends the iteration
AfterPhase(ph) ==
    IF ph = PhaseOrder[1] THEN PhaseOrder[2] \o "_walk"
    ELSE IF sync_interval # None THEN "sleep" ELSE "done"

LogMsg(text, path) == [text |-> text, path |-> path]

\* mutant: only the existence of the path is checked
check_path_validity_exists(rootKind) ==
    IF rootKind = "none" THEN "does not exist" ELSE "ok"

\* check_path_validity: the text of the ValueError, or "ok"
check_path_validity(rootKind) ==
    IF rootKind = "none" THEN "does not exist"
    ELSE IF rootKind # "dir" THEN "is not a valid folder path"
    ELSE "ok"

\* the try block of sync_folders: the first invalid root is logged and the
\* function returns
Validate ==
    /\ pc = "validate"
    /\ LET s == check_path_validity(srcRoot)
           r == check_path_validity(repRoot)
       IN  IF s # "ok"
           THEN /\ log' = Append(log, LogMsg("Error: " \o s, SourceFolder))
                /\ pc' = "done"
           ELSE IF r # "ok"
           THEN /\ log' = Append(log, LogMsg("Error: " \o r, replica_folder))
                /\ pc' = "done"
           ELSE /\ log' = log
                /\ pc' = PhaseOrder[1] \o "_walk"
    /\ UNCHANGED <<source, replica, srcRoot, repRoot, replica_folder, sync_interval,
                   cycle, sleeps, source_items, replica_items, idx,
                   calls, faults, replica0>>

\* ---------------------------------------------------------- failure model
\* what the environment can make a primitive raise instead of doing its work;
\* a primitive that raises leaves the tree as it was
FaultKinds == {"PermissionError", "OSError"}

\* a file whose bytes were altered between the copy and its verification
Altered(data) == CHOOSE d \in Contents : d # data

FaultsFor(kinds, applicable) ==
    IF applicable /\ faults < MaxFaults THEN {"none"} \cup kinds ELSE {"none"}

\* the except clause that handles exc, or "uncaught"
Caught(handlers, exc) ==
    LET hits == {i \in 1..Len(handlers) :
                    \/ handlers[i] = exc
                    \/ handlers[i] = "OSError" /\ exc \in OSErrors}
    IN  IF hits = {} THEN "uncaught" ELSE handlers[Min(hits)]

\* -------------------------------------------------------------- delete_item
\* mutant: the last except clause, for OSError, is missing
DeleteHandlers_narrow == <<"FileNotFoundError", "PermissionError", "NotADirectoryError">>

\* the except clauses of delete_item, in order
DeleteHandlers == <<"FileNotFoundError", "PermissionError", "NotADirectoryError", "OSError">>

DeleteText(clause) ==
    CASE clause = "none"               -> "removed successfully"
      [] clause = "FileNotFoundError"  -> "Unable to delete: not found"
      [] clause = "PermissionError"    -> "Unable to delete: permission denied"
      [] clause = "NotADirectoryError" -> "Unable to delete: not a directory"
      [] clause = "OSError"            -> "Unable to delete: error"
      [] OTHER                         -> ""

delete_item(t, rootKind, item_path, fault) ==
    LET p == Below(replica_folder, item_path)
        k == KindAt(t, rootKind, p)
        r == IF k = "file"
             THEN IF fault # "none" THEN Result(fault, t, rootKind)
                  ELSE os_remove(t, rootKind, p)
             ELSE IF k = "dir"
             THEN IF fault # "none" THEN Result(fault, t, rootKind)
                  ELSE rmtree(t, rootKind, p)
             ELSE Result("none", t, rootKind)
        clause == IF r.exc = "none" THEN "none" ELSE Caught(DeleteHandlers, r.exc)
    IN  [fs |-> r.fs, root |-> r.root, exc |-> r.exc, clause |-> clause,
         text |-> DeleteText(clause), src_md5 |-> 0, dst_md5 |-> 0]

\* ---------------------------------------------------------------- copy_item
\* the except clauses of copy_item, in order
CopyHandlers == <<"FileNotFoundError", "PermissionError", "OSError">>

CopyText(clause) ==
    CASE clause = "FileNotFoundError" -> "not found"
      [] clause = "PermissionError"   -> "Permission denied to copy"
      [] clause = "OSError"           -> "Error copying item"
      [] OTHER                        -> ""

\* mutant: the digests are not compared
IntegrityText_always(source_md5, replica_md5) == "copied [Integrity verified]"

\* the message of a file copy whose digests were computed
IntegrityText(source_md5, replica_md5) ==
    IF source_md5 = replica_md5 THEN "copied [Integrity verified]"
    ELSE "copied [Integrity compromised]"

copy_item(src, srcKind, t, rootKind, source_path, replica_path, fault) ==
    LET sp == Below(SourceFolder, source_path)
        p  == Below(replica_folder, replica_path)
        sk == KindAt(src, srcKind, sp)
        r  == IF sk = "file"
              THEN IF fault \in FaultKinds THEN Result(fault, t, rootKind)
                   ELSE LET c == copy2(t, rootKind, p,
                                       IF fault = "corrupt" THEN Altered(src[sp].data)
                                                            ELSE src[sp].data,
                                       sp[Len(sp)])
                        IN  \* calculate_md5(replica_path) opens the destination
                            IF c.exc = "none" /\ KindAt(c.fs, c.root, p) # "file"
                            THEN Result("IsADirectoryError", c.fs, c.root)
                            ELSE c
              ELSE IF sk = "dir"
              THEN IF fault \in FaultKinds THEN Result(fault, t, rootKind)
                   ELSE copytree(src, sp, t, rootKind, p)
              ELSE Result("none", t, rootKind)
        clause == IF r.exc = "none" THEN "none" ELSE Caught(CopyHandlers, r.exc)
        smd5 == IF sk = "file" /\ r.exc = "none" THEN calculate_md5(src[sp].data) ELSE 0
        dmd5 == IF sk = "file" /\ r.exc = "none" THEN calculate_md5(r.fs[p].data) ELSE 0
    IN  [fs |-> r.fs, root |-> r.root, exc |-> r.exc, clause |-> clause,
         text |-> IF clause # "none" THEN CopyText(clause)
                  ELSE IF sk = "file" THEN IntegrityText(smd5, dmd5)
                  ELSE IF sk = "dir" THEN "copied successfully"
                  ELSE "",
         src_md5 |-> smd5, dst_md5 |-> dmd5]

\* ------------------------------------------------------- the two phases
\* the record kept of a call: the iteration, the function, the relative entry,
\* the replica path it was given, the kind of the item (of the replica path
\* for delete_item, of the source path for copy_item), what the replica path
\* designated before the call, and what came of the call
Call(op, item, path, kind, fault, res, logpos) ==
    [cyc |-> cycle, op |-> op, item |-> item, path |-> path, kind |-> kind,
     before |-> KindAt(replica, repRoot, Below(replica_folder, path)),
     fault |-> fault, exc |-> res.exc, escaped |-> (res.clause = "uncaught"),
     text |-> res.text, logpos |-> logpos,
     src_md5 |-> res.src_md5, dst_md5 |-> res.dst_md5]

\* the effect of a delete_item or copy_item call that gave res
Apply(op, item, path, logged, kind, fault, res) ==
    /\ replica' = res.fs
    /\ repRoot' = res.root
    /\ log' = IF res.text = "" THEN log ELSE Append(log, LogMsg(res.text, logged))
    /\ calls' = Append(calls, Call(op, item, path, kind, fault, res,
                                   IF res.text = "" THEN 0 ELSE Len(log) + 1))
    /\ faults' = IF fault = "none" THEN faults ELSE faults + 1
    /\ IF res.clause = "uncaught"
       THEN pc' = "crashed" /\ idx' = idx
       ELSE pc' = pc /\ idx' = idx + 1

\* the two walks that open a phase; the first phase opens the iteration
PhaseWalk(ph) ==
    /\ pc = ph \o "_walk"
    /\ ph = PhaseOrder[1] => cycle < MaxCycles
    /\ source_items' = walk_folder_content(source, srcRoot, Listing)
    /\ replica_items' = walk_folder_content(replica, repRoot, Listing)
    /\ idx' = 1
    /\ pc' = ph \o "_loop"
    /\ IF ph = PhaseOrder[1]
       THEN cycle' = cycle + 1 /\ replica0' = replica
       ELSE UNCHANGED <<cycle, replica0>>
    /\ UNCHANGED <<source, replica, srcRoot, repRoot, replica_folder, sync_interval,
                   sleeps, log, calls, faults>>

\* delete_extra_items_from_replica, lines 133-134
DeleteWalk == PhaseWalk("delete")

\* a delete phase that clears the replica whatever the source holds
IsExtra_all(item) == TRUE

\* line 137: the item of the replica walk is not in the source walk
IsExtra(item) == item \notin Range(source_items)

\* one iteration of the for loop of delete_extra_items_from_replica
DeleteStep ==
    /\ pc = "delete_loop"
    /\ idx <= Len(replica_items)
    /\ LET item == replica_items[idx]
           item_real_path == join(replica_folder, item)
           k == KindAt(replica, repRoot, Below(replica_folder, item_real_path))
       IN  IF IsExtra(item)
           THEN \E f \in FaultsFor(FaultKinds, k # "none") :
                   Apply("delete_item", item, item_real_path, item_real_path, k, f,
                         delete_item(replica, repRoot, item_real_path, f))
           ELSE /\ idx' = idx + 1
                /\ UNCHANGED <<replica, repRoot, log, calls, faults, pc>>
    /\ UNCHANGED <<source, srcRoot, replica_folder, sync_interval, cycle,
                   sleeps, source_items, replica_items, replica0>>

\* delete_extra_items_from_replica returns
DeleteEnd ==
    /\ pc = "delete_loop"
    /\ idx > Len(replica_items)
    /\ pc' = AfterPhase("delete")
    /\ UNCHANGED <<source, replica, srcRoot, repRoot, replica_folder, sync_interval,
                   cycle, sleeps, source_items, replica_items, idx, log,
                   calls, faults, replica0>>

\* copy_new_from_source_to_replica, lines 189-190
CopyWalk == PhaseWalk("copy")

\* the destination copy_new_from_source_to_replica computes for item
CopyDestination(item) ==
    LET source_path == join(SourceFolder, item)
        replica_path == join(replica_folder, item)
    IN  IF KindAt(source, srcRoot, Below(SourceFolder, source_path)) = "dir"
        THEN LET replica_subfolder == join(replica_folder, item)
             IN  join(replica_folder, replica_subfolder)
        ELSE replica_path

\* a copy phase that copies every item of the source walk
IsMissing_all(item) == TRUE

\* line 193: the item of the source walk is not in the replica walk
IsMissing(item) == item \notin Range(replica_items)

\* one iteration of the for loop of copy_new_from_source_to_replica
CopyStep ==
    /\ pc = "copy_loop"
    /\ idx <= Len(source_items)
    /\ LET item == source_items[idx]
           source_path == join(SourceFolder, item)
           replica_path == CopyDestination(item)
           k == KindAt(source, srcRoot, Below(SourceFolder, source_path))
       IN  IF IsMissing(item)
           THEN \E f \in FaultsFor(IF k = "file" THEN FaultKinds \cup {"corrupt"}
                                                 ELSE FaultKinds, k # "none") :
                   Apply("copy_item", item, replica_path, source_path, k, f,
                         copy_item(source, srcRoot, replica, repRoot,
                                   source_path, replica_path, f))
           ELSE /\ idx' = idx + 1
                /\ UNCHANGED <<replica, repRoot, log, calls, faults, pc>>
    /\ UNCHANGED <<source, srcRoot, replica_folder, sync_interval, cycle,
                   sleeps, source_items, replica_items, replica0>>

\* copy_new_from_source_to_replica returns
CopyEnd ==
    /\ pc = "copy_loop"
    /\ idx > Len(source_items)
    /\ pc' = AfterPhase("copy")
    /\ UNCHANGED <<source, replica, srcRoot, repRoot, replica_folder, sync_interval,
                   cycle, sleeps, source_items, replica_items, idx, log,
                   calls, faults, replica0>>

\* time.sleep: a negative length is a ValueError
time_sleep(secs) == IF secs < 0 THEN "ValueError" ELSE "none"

\* a loop that goes back to the validation of the roots
LoopHead_revalidate == "validate"

\* line 246: the head of the while loop, where the first phase starts
LoopHead == PhaseOrder[1] \o "_walk"

\* line 250: the sleep returns and the loop goes round, or the error of
\* time.sleep leaves sync_folders
Sleep ==
    /\ pc = "sleep"
    /\ IF time_sleep(sync_interval[1]) = "none"
       THEN /\ sleeps' = sleeps + 1
            /\ pc' = LoopHead
       ELSE /\ sleeps' = sleeps
            /\ pc' = "crashed"
    /\ UNCHANGED <<source, replica, srcRoot, repRoot, replica_folder, sync_interval,
                   cycle, source_items, replica_items, idx, log, calls,
                   faults, replica0>>

Next ==
    \/ Validate
    \/ DeleteWalk
    \/ DeleteStep
    \/ DeleteEnd
    \/ CopyWalk
    \/ CopyStep
    \/ CopyEnd
    \/ Sleep

Spec == Init /\ [][Next]_vars

\* ================================================================ properties
\* an iteration of the while loop has just run to its end
CycleOver == cycle >= 1 /\ pc \in {"sleep", "done"}

CallsOf(c) == {i \in 1..Len(calls) : calls[i].cyc = c}

\* no call of iteration c raised, and the environment did not interfere
NoFailure(c) ==
    \A i \in CallsOf(c) : calls[i].exc = "none" /\ calls[i].fault = "none"

\* the set of relative entries of a tree, as walk_folder_content lists it
RelEntries(t, rootKind) == Range(walk_folder_content(t, rootKind, Listing))

\* both roots are directories
ValidRoots == srcRoot = "dir" /\ repRoot = "dir"

\* the path below the replica root that call i addressed
Target(i) == Below(replica_folder, calls[i].path)

\* C1: after an iteration in which no delete or copy failed, the relative
\* entries of the replica are those of the source.
C1_Convergence ==
    (CycleOver /\ NoFailure(cycle))
        => RelEntries(replica, repRoot) = RelEntries(source, srcRoot)

\* C2: after an iteration without failure, a path that both trees hold has
\* the same kind in both and, when it is a file, the same content.
C2_ExactMirror ==
    (CycleOver /\ NoFailure(cycle))
        => \A p \in SrcPaths :
              (source[p].kind # "none" /\ replica[p].kind # "none")
                  => replica[p] = source[p]

\* C3: a path that was a directory in the replica when the iteration began
\* and is a file in the source has been the target of a delete_item call of
\* that iteration, made before any copy_item call on it.
C3_KindChange ==
    CycleOver
        => \A p \in SrcPaths :
              (replica0[p].kind = "dir" /\ source[p].kind = "file")
                  => \E i \in CallsOf(cycle) :
                        /\ calls[i].op = "delete_item"
                        /\ Target(i) = p
                        /\ \A j \in CallsOf(cycle) :
                              (calls[j].op = "copy_item" /\ Target(j) = p) => i < j

\* C4: within an iteration no delete_item call follows a copy_item call.
C4_PhaseOrdering ==
    \A i, j \in 1..Len(calls) :
        (i < j /\ calls[i].cyc = calls[j].cyc /\ calls[i].op = "copy_item")
            => calls[j].op # "delete_item"

\* an iteration made a delete_item call and then a copy_item call
C4_Witness ==
    \E i, j \in 1..Len(calls) :
        /\ i < j
        /\ calls[i].cyc = calls[j].cyc
        /\ calls[i].op = "delete_item"
        /\ calls[j].op = "copy_item"

\* C5: the iteration that follows an iteration without failure makes no
\* delete_item call and no copy_item call.
C5_Idempotence ==
    \A c \in 1..cycle :
        (c > 1 /\ NoFailure(c - 1)) => CallsOf(c) = {}

\* the items on which iteration c called op
ItemsOf(c, op) == {calls[i].item : i \in {j \in CallsOf(c) : calls[j].op = op}}

StepsLeft ==
    LET width == Cardinality(RepPaths) + 2
    IN  CASE pc = "validate"    -> 5 * width
          [] pc = "delete_walk" -> 4 * width
          [] pc = "delete_loop" -> 3 * width + (Len(replica_items) + 1 - idx)
          [] pc = "copy_walk"   -> 2 * width
          [] pc = "copy_loop"   -> width + (Len(source_items) + 1 - idx)
          [] OTHER              -> 0

\* C8: without an interval and with valid roots sync_folders runs one
\* iteration, never sleeps, and returns, whatever fails in the iteration:
\* until it has returned it stands at a step of its one iteration, and every
\* step brings the return nearer.
C8_RunOnce ==
    /\ []((sync_interval = None /\ ValidRoots) =>
            /\ cycle <= 1
            /\ sleeps = 0
            /\ pc \notin {"sleep", "crashed"}
            /\ pc = "done" => cycle = 1
            /\ pc \in {"validate", "delete_walk", "delete_loop", "copy_walk",
                      "copy_loop", "done"}
            /\ pc = "delete_walk" => cycle = 0
            /\ StepsLeft >= 0
            /\ pc # "done" => StepsLeft > 0)
    /\ [][(sync_interval = None /\ ValidRoots) => StepsLeft' < StepsLeft]_vars

\* a run without interval has returned after one iteration in which a call
\* failed
C8_Witness ==
    /\ sync_interval = None
    /\ pc = "done"
    /\ cycle = 1
    /\ \E i \in CallsOf(1) : calls[i].exc # "none"

\* the position of sync_folders is inside an iteration
InCycle == pc \in {"delete_loop", "copy_walk", "copy_loop", "sleep"}

\* every iteration but the first was preceded by a sleep, and sync_folders
\* has not returned
SleepsBetweenCycles ==
    /\ pc \notin {"done", "crashed"}
    /\ pc \in {"validate", "delete_walk"} => sleeps = cycle
    /\ InCycle => sleeps = cycle - 1

FileCopied(i) ==
    calls[i].op = "copy_item" /\ calls[i].kind = "file" /\ calls[i].exc = "none"

\* C10: a file copy whose digests were computed logs "Integrity verified"
\* when the digest of the source equals the digest of the destination as the
\* copy left it, and "Integrity compromised" otherwise; neither raises, the
\* item is not copied again in the iteration, and the iteration ends with a
\* copy_item call made for every entry that was only in the source.
C10_IntegritySignal ==
    /\ \A i \in 1..Len(calls) :
          FileCopied(i) =>
            /\ calls[i].src_md5 = calculate_md5(source[Below(SourceFolder, join(SourceFolder, calls[i].item))].data)
            /\ i = Len(calls) =>
                  calls[i].dst_md5 = calculate_md5(replica[Target(i)].data)
            /\ log[calls[i].logpos].text =
                  IF calls[i].src_md5 = calls[i].dst_md5
                  THEN "copied [Integrity verified]"
                  ELSE "copied [Integrity compromised]"
            /\ ~calls[i].escaped
            /\ \A j \in CallsOf(calls[i].cyc) :
                  (j # i /\ calls[j].op = "copy_item") => calls[j].item # calls[i].item
    /\ CycleOver =>
          ItemsOf(cycle, "copy_item") = Range(source_items) \ Range(replica_items)

\* an iteration ran to its end after a copy whose digests differed, and
\* copied another item after it
C10_Witness ==
    /\ CycleOver
    /\ \E i, j \in CallsOf(cycle) :
          /\ i < j
          /\ FileCopied(i)
          /\ calls[i].src_md5 # calls[i].dst_md5
          /\ log[calls[i].logpos].text = "copied [Integrity compromised]"
          /\ calls[j].op = "copy_item"

\* the copy_item calls of iteration c whose source item is a directory
DirCopies(c) == {i \in CallsOf(c) : calls[i].op = "copy_item" /\ calls[i].kind = "dir"}

\* the relative entry of call i, as a sequence of names
EntryOf(i) == normpath(calls[i].item)

\* C11: a directory missing from the replica is copied by one copy_item call
\* and no entry nested under it gets a copy_item call of its own in the same
\* iteration
C11_NoDoubleCopy ==
    \A i \in 1..Len(calls) : \A j \in 1..Len(calls) :
        (/\ i \in DirCopies(calls[i].cyc)
         /\ j \in CallsOf(calls[i].cyc)
         /\ calls[j].op = "copy_item"
         /\ i # j)
        => ~IsPrefix(EntryOf(i), EntryOf(j))

\* call i failed for a cause of the environment, one that can go away
FailedForNow(i) == calls[i].fault \in FaultKinds /\ calls[i].exc # "none"

\* C12: when a delete or a copy failed in one iteration for a cause that is
\* gone in the next, and nothing fails in the next, the next iteration calls
\* the same function on the item again and ends with the relative entries of
\* the replica equal to those of the source.
C12_SelfHealing ==
    (CycleOver /\ cycle >= 2 /\ NoFailure(cycle))
        => \A i \in CallsOf(cycle - 1) :
              FailedForNow(i)
              => /\ calls[i].item \in ItemsOf(cycle, calls[i].op)
                 /\ RelEntries(replica, repRoot) = RelEntries(source, srcRoot)

\* C13: every copy_item call is given, as its destination, the place that the
\* replica root joined with the relative entry designates, whether the item
\* is a file or a directory and whether the root is absolute or relative.
C13_CopyDestination ==
    \A i \in 1..Len(calls) :
        calls[i].op = "copy_item"
        => abspath(calls[i].path) = abspath(join(replica_folder, calls[i].item))

\* C14: when copy_item is called on a source directory, nothing exists yet at
\* the destination it is given, also when the directory lies inside one that
\* an earlier call of the same copy phase copied.
C14_DirCopyPrecondition ==
    \A i \in 1..Len(calls) :
        (calls[i].op = "copy_item" /\ calls[i].kind = "dir")
        => calls[i].before = "none"

\* C15: delete_item logs "removed successfully" only for a path that existed
\* when the call started and that the call removed; a path already gone is
\* logged as not found.
C15_TruthfulDelete ==
    \A i \in 1..Len(calls) :
        calls[i].op = "delete_item"
        => /\ calls[i].text = DeleteText("none") => calls[i].before # "none"
           /\ calls[i].before = "none" => calls[i].text = DeleteText("FileNotFoundError")

\* the relative entries of the replica as the iteration found it
StartEntries == RelEntries(replica0, "dir")

\* C17: the entries an iteration calls copy_item on are those of the source
\* that the replica lacked when the iteration started, and the entries it
\* calls delete_item on are those the replica had and the source lacks,
\* whatever became of the deletions.
C17_SingleDiff ==
    CycleOver
    => /\ ItemsOf(cycle, "copy_item") = RelEntries(source, srcRoot) \ StartEntries
       /\ ItemsOf(cycle, "delete_item") = StartEntries \ RelEntries(source, srcRoot)

\* an iteration has ended in which a deletion failed and a copy was made
C17_Witness ==
    /\ CycleOver
    /\ \E i \in CallsOf(cycle) : calls[i].op = "delete_item" /\ calls[i].exc # "none"
    /\ \E i \in CallsOf(cycle) : calls[i].op = "copy_item"

\* the paths that the source holds and the replica held when the iteration
\* started
Shared == {p \in SrcPaths : source[p].kind # "none" /\ replica0[p].kind # "none"}

RootVanishes ==
    /\ pc = "sleep"
    /\ cycle < MaxCycles
    /\ faults < MaxFaults
    /\ ValidRoots
    /\ faults' = faults + 1
    /\ \/ /\ srcRoot' = "none"
          /\ source' = EmptyTree(SrcPaths)
          /\ UNCHANGED <<replica, repRoot>>
       \/ /\ repRoot' = "none"
          /\ replica' = EmptyTree(RepPaths)
          /\ UNCHANGED <<source, srcRoot>>
    /\ UNCHANGED <<replica_folder, sync_interval, pc, cycle, sleeps, source_items,
                   replica_items, idx, log, calls, replica0>>

NextEnv ==
    \/ Next
    \/ RootVanishes

\* sync_folders in an environment that can take a root away
SpecEnv == Init /\ [][NextEnv]_vars

\* the roots are validated before the first iteration and at no other time:
\* once an iteration has started the validation is behind, and the only
\* validation message the log can hold is the one of a run that never started
ValidatedOnce ==
    /\ pc = "validate" => (cycle = 0 /\ calls = <<>> /\ log = <<>>)
    /\ cycle >= 1 =>
          /\ pc # "validate"
          /\ \A k \in 1..Len(log) : log[k].text \notin {"Error: does not exist",
                                                        "Error: is not a valid folder path"}

C16_WitnessReplica ==
    /\ sync_interval # None /\ sync_interval[1] >= 0
    /\ cycle = 2
    /\ pc = "sleep"
    /\ repRoot = "none"
    /\ \E i \in CallsOf(2) : calls[i].op = "copy_item" /\ calls[i].exc = "FileNotFoundError"


====
